---------------------------- MODULE Spec2Model ----------------------------
(***************************************************************************)
(* ForestScroller (assets/js/forest-scroller.js): the canvas image         *)
(* sequence player.  One instance, its asynchronous initialization, the    *)
(* image loads in flight, the scroll / resize listeners, the draw loop on  *)
(* requestAnimationFrame, and the public operations.  ForestAmbient, the   *)
(* particle overlay, is modelled further down, as a second object.         *)
(*                                                                         *)
(* Frame positions (currentFrame, targetFrame, velocity) are JavaScript    *)
(* numbers; here they are fixed-point integers counted in 1/Unit of a      *)
(* frame, every product rounded to the nearest 1/Unit.                     *)
(***************************************************************************)
EXTENDS Integers, FiniteSets, Sequences

(***************************************************************************)
(* Bounds of the model.                                                    *)
(***************************************************************************)
\* options.totalFrames as passed by the caller (the default is 120)
MaxFrames == 4
\* options.preloadCount as passed by the caller (the default is 5)
PreloadCount == 2
\* document.documentElement.scrollHeight - window.innerHeight, in px
ScrollHeight == 100
\* executions of the draw-loop callback that are followed
MaxTicks == 2
\* successful image loads that are followed (loadedCount is unbounded)
MaxLoaded == 5
\* outstanding requests per frame index that are followed
MaxInFlight == 2
\* exceptions raised by the canvas API inside a draw that are followed
MaxDrawErrors == 1
\* calls of the public operations by the page's script that are followed
MaxCalls == 1
\* scroll and resize events of the user that are followed
MaxEvents == 1
\* scroll events of one burst that are followed
MaxBurst == 2
\* consecutive calls of jumpToFrame / jumpToProgress that are followed
MaxJumps == 2
\* px the page can be dragged past its ends (elastic overscroll)
Overscroll == 20
\* ticks of the draw loop within which reaching the target is looked for
MaxHorizon == 60
\* ForestAmbient: options.particleCount as passed by the caller (default 40)
ParticleCount == 1
\* ForestAmbient: options.sparkleCount as passed by the caller (default 30)
SparkleCount == 1
\* ForestAmbient: window.innerWidth and window.innerHeight, in px
ViewWidth == 4
ViewHeight == 4
\* ForestAmbient: scroll events, firings of the 50 ms decay timer, executions
\* of the overlay's draw callback and calls of destroy() that are followed
MaxAmbientScrolls == 2
MaxDecays == 2
MaxAmbientTicks == 2
MaxDestroys == 2

(***************************************************************************)
(* Numbers.                                                                *)
(***************************************************************************)
Unit == 1000

Abs(x) == IF x < 0 THEN -x ELSE x

Min(a, b) == IF a < b THEN a ELSE b

Max(a, b) == IF a > b THEN a ELSE b

\* a / b rounded to the nearest integer, halves up (b > 0)
RoundDiv(a, b) == (2 * a + b) \div (2 * b)

\* Math.floor, Math.ceil, Math.round of a fixed-point number, as fixed-point
MathFloor(x) == (x \div Unit) * Unit

MathCeil(x) == (-((-x) \div Unit)) * Unit

MathRound(x) == ((2 * x + Unit) \div (2 * Unit)) * Unit

\* the integer frame index of a fixed-point number that is whole
Index(x) == x \div Unit

Frames == 0 .. (MaxFrames - 1)

NoFrames == [i \in Frames |-> 0]

(***************************************************************************)
(* The environment's inputs.                                               *)
(***************************************************************************)
\* window.pageYOffset: top, part of the way, and past the end (overscroll)
ScrollPositions == {0, (2 * ScrollHeight) \div 5, ScrollHeight + 20}

\* arguments of jumpToFrame: below the range, fractional, above the range
JumpFrames == {-Unit, Unit + (Unit \div 2), MaxFrames * Unit}

\* arguments of jumpToProgress, in percent
JumpPercents == {25}

\* the loops of startAnimationLoop, by the call that started them
Origins == {"init", "resume"}

VARIABLES
  \* the document and the window
  canvasPresent,      \* document.getElementById(canvasId) finds an element
  pageYOffset,        \* window.pageYOffset
  \* this.config
  totalFrames,        \* config.totalFrames
  imageFormat,        \* config.imageFormat
  \* this.*
  ctx,                \* this.canvas and this.ctx are set (TRUE) or null
  images,             \* the indices i with this.images[i] set
  loadedImages,       \* this.loadedImages
  loadedCount,        \* this.loadedCount
  isLoading,          \* this.isLoading
  isMobile,           \* this.isMobile
  animationFrameId,   \* "null", or the loop whose pending callback it names,
                      \* or "stale": the id of a callback that ran or was cancelled
  currentFrame,       \* this.currentFrame
  targetFrame,        \* this.targetFrame
  velocity,           \* this.velocity
  lastScrollY,        \* this.lastScrollY
  scrollVelocity,     \* this.scrollVelocity
  \* the position of init() and the closures' variables
  pc,                 \* "probe", "prio1".."prio3", "rest", "ready", "failed"
  scrollListener,     \* handleScroll is attached to window
  ticking,            \* setupScrollListener's ticking: a scroll callback is pending
  resizeListener,     \* handleResize is attached to window
  resizeTimeout,      \* the pending timers set by handleResize
  \* the browser
  inflight,           \* per frame index, the Image loads that have not settled
  rafLoops,           \* per origin, the pending animate callbacks
  drawn,              \* the canvas: Blank, or the frame position last composited
  \* what an observer has seen
  requested,          \* the frame indices a load was ever requested for
  failedFrames,       \* the frame indices a load has failed for
  ticks,              \* executions of animate
  drawErrors,         \* exceptions raised inside a draw
  onReadyCalls,       \* invocations of config.onReady
  onErrorCalls,       \* invocations of config.onError
  onLoadCalls,        \* invocations of config.onLoad
  paused,             \* pause() has returned and resume() was not called since
  destroyed,          \* destroy() has been called
  calls,              \* calls of the public operations
  events,             \* scroll and resize events
  \* more of the window, of this.* and of the browser
  innerWidth,         \* window.innerWidth when init() reads it
  supportsWebP,       \* this.supportsWebP: "null", or the probe's result
  scrollCallbacks,    \* the pending frame callbacks of handleScroll
  \* more of what an observer has seen
  succeeded,          \* the frame indices a load has succeeded for
  lastJump            \* where consecutive jumps are followed: the jumpToFrame
                      \* call that was the last step and returned (its argument,
                      \* and whether the step before it was the same call with
                      \* the same argument); NoJump otherwise
  ,
  \* ForestAmbient (the overlay of DEPLOY.md), where it is constructed
  ambient,            \* the instance: its this.* fields
  ambientWindow       \* the window and the document as the overlay meets them,
                      \* and what an observer has seen of the overlay

vars == <<canvasPresent, pageYOffset, totalFrames, imageFormat, ctx, images,
          loadedImages, loadedCount, isLoading, isMobile, animationFrameId,
          currentFrame, targetFrame, velocity, lastScrollY, scrollVelocity, pc,
          scrollListener, ticking, resizeListener, resizeTimeout, inflight,
          rafLoops, drawn, requested, failedFrames, ticks, drawErrors,
          onReadyCalls, onErrorCalls, onLoadCalls, paused, destroyed,
          calls, events, innerWidth, supportsWebP, scrollCallbacks,
          succeeded, lastJump, ambient, ambientWindow>>


(***************************************************************************)
(* Program constants.                                                      *)
(***************************************************************************)
\* options.mobileBreakpoint's default
MobileBreakpoint == 768

\* options.mobileFrameCount as passed by the caller (the default is 60)
MobileFrameCount == MaxFrames - 1

\* scroll deltas above this many px select the higher smoothing constant
FastScroll == 50

\* adaptiveSmoothness, in hundredths: 0.12 or 0.06
FastSmoothness == 12

SlowSmoothness == 6

\* options.smoothing, in hundredths: the default 0.1, and the 0.2 the README
\* recommends 'for faster interpolation'
SmoothingDefault == 10

SmoothingFaster == 20

\* velocityThreshold = 0.05
VelocityThreshold == (5 * Unit) \div 100

\* blendFactor > 0.01
BlendThreshold == Unit \div 100

Blank == [frame |-> -1, blended |-> FALSE]

\* lastJump when the last step was not a call of jumpToFrame that returned
NoJump == [called |-> FALSE, frameIndex |-> 0, repeated |-> FALSE]

\* ambient and ambientWindow where no ForestAmbient is constructed
NoAmbient ==
  [particles |-> <<>>, sparkles |-> <<>>, lightRayOpacity |-> 0,
   animationFrameId |-> "null", scrollProgress |-> 0, scrollVelocity |-> 0,
   lastScrollY |-> 0, velocityMultiplier |-> Unit]

NoAmbientWindow ==
  [parentElement |-> FALSE, frameCallbacks |-> 0, innerWidth |-> 0,
   innerHeight |-> 0, pageYOffset |-> 0, updated |-> FALSE,
   destroyed |-> FALSE, scrolls |-> 0, decays |-> 0, ticks |-> 0,
   destroys |-> 0]

(***************************************************************************)
(* Pure functions of the program.                                          *)
(***************************************************************************)
\* Math.max(lo, Math.min(x, hi))
Clamp(x, lo, hi) == Max(lo, Min(x, hi))

\* priorityFrames of preloadImages, for n frames
PriorityFrames(n) == <<0, n \div 2, n - 1>>

PrioritySet(n) == {PriorityFrames(n)[k] : k \in 1..3}

PrioPc == <<"prio1", "prio2", "prio3">>

\* (mutant of NextPriority: only the first priority load is awaited)
NextPriorityFirstOnly(k, loaded, n) ==
  IF k = 1 /\ PriorityFrames(n)[1] \notin loaded THEN 1 ELSE 4

\* the first priority frame from position k on that loadImage has to request
\* (loadImage resolves at once for one in loadedImages), or 4 when none is left
NextPriority(k, loaded, n) ==
  IF \E j \in k..3 : PriorityFrames(n)[j] \notin loaded
    THEN CHOOSE j \in k..3 :
           /\ PriorityFrames(n)[j] \notin loaded
           /\ \A h \in k..3 : PriorityFrames(n)[h] \notin loaded => j <= h
    ELSE 4

\* (mutant of easeInOutCubic: the division by 2 of the second branch is lost)
easeInOutCubicNoHalf(t) ==
  IF 2 * t < Unit
    THEN RoundDiv(4 * t * t * t, Unit * Unit)
    ELSE Unit - RoundDiv((2 * Unit - 2 * t) * (2 * Unit - 2 * t) * (2 * Unit - 2 * t),
                         Unit * Unit)

\* easeInOutCubic on a fixed-point t in 0..Unit
easeInOutCubic(t) ==
  IF 2 * t < Unit
    THEN RoundDiv(4 * t * t * t, Unit * Unit)
    ELSE Unit - RoundDiv((2 * Unit - 2 * t) * (2 * Unit - 2 * t) * (2 * Unit - 2 * t),
                         2 * Unit * Unit)

\* scrollProgress of updateScrollPosition for window.pageYOffset = y and a
\* scrollable height of h px
ScrollProgressFor(y, h) ==
  IF h > 0
    THEN Max(0, Min(Unit, RoundDiv(y * Unit, h)))
    ELSE 0

ScrollProgress(y) == ScrollProgressFor(y, ScrollHeight)

\* targetFrame of updateScrollPosition
TargetOf(y, n) == easeInOutCubic(ScrollProgress(y)) * (n - 1)

\* the frames lazyLoadNearbyFrames(currentIndex) calls loadImage for
LazyFrames(currentIndex, loaded, n) ==
  {i \in Frames : /\ currentIndex <= i
                  /\ i < currentIndex + PreloadCount
                  /\ i < n
                  /\ i \notin loaded}

\* one more outstanding load for every frame of S
Request(infl, S) == [i \in Frames |-> IF i \in S THEN infl[i] + 1 ELSE infl[i]]

\* drawFrameWithBlending reaches the canvas API (it returns early otherwise)
DrawReachesCanvas(exactFrame, imgs, hasCtx) ==
  hasCtx /\ (exactFrame \div Unit) \in imgs

\* the canvas after drawFrameWithBlending(exactFrame)
drawFrameWithBlending(exactFrame, imgs, hasCtx, n, old) ==
  LET frameIndex1 == exactFrame \div Unit
      frameIndex2 == Min(Index(MathCeil(exactFrame)), n - 1)
      blendFactor == exactFrame - frameIndex1 * Unit
  IN  IF DrawReachesCanvas(exactFrame, imgs, hasCtx)
        THEN [frame   |-> exactFrame,
              blended |-> /\ frameIndex2 \in imgs
                          /\ frameIndex1 # frameIndex2
                          /\ blendFactor > BlendThreshold]
        ELSE old

\* animate: velocity += diff * adaptiveSmoothness; velocity *= 0.75
SpringVelocity(v, diff, sv) ==
  LET s == IF sv > FastScroll THEN FastSmoothness ELSE SlowSmoothness
  IN  RoundDiv((v * 100 + diff * s) * 3, 400)

\* (mutant of ClampFrame: the upper limit is forgotten)
ClampFrameLowerOnly(x, n) == Max(0, x)

\* animate: the clamp of currentFrame ...
ClampFrame(x, n) == Clamp(x, 0, (n - 1) * Unit)

\* ... and the snap to the nearest frame when the velocity is low
SnapFrame(x, v) == IF Abs(v) < VelocityThreshold THEN MathRound(x) ELSE x

\* jumpToFrame's clampedIndex
JumpTarget(frameIndex, n) == Clamp(frameIndex, 0, (n - 1) * Unit)

\* jumpToProgress's frame for a percentage
ProgressFrame(percentage, n) == RoundDiv(percentage * (n - 1) * Unit, 100)

LoopCount == rafLoops["init"] + rafLoops["resume"]

NoneInFlight(infl) == \A i \in Frames : infl[i] = 0

(***************************************************************************)
(* The state after `new ForestScroller(options)`: the constructor's        *)
(* assignments, then init() up to its first await (the WebP probe).        *)
(***************************************************************************)
Init ==
  /\ canvasPresent \in BOOLEAN
  /\ pageYOffset = 0
  /\ innerWidth \in {MobileBreakpoint, MobileBreakpoint + 1}
  /\ isMobile = (innerWidth <= MobileBreakpoint)
  /\ totalFrames = IF innerWidth <= MobileBreakpoint
                     THEN MobileFrameCount ELSE MaxFrames
  /\ imageFormat = "webp"
  /\ ctx = FALSE
  /\ images = {}
  /\ loadedImages = {}
  /\ loadedCount = 0
  /\ isLoading = TRUE
  /\ animationFrameId = "null"
  /\ currentFrame = 0
  /\ targetFrame = 0
  /\ velocity = 0
  /\ lastScrollY = 0
  /\ scrollVelocity = 0
  /\ pc = "probe"
  /\ scrollListener = FALSE
  /\ ticking = FALSE
  /\ resizeListener = FALSE
  /\ resizeTimeout = 0
  /\ inflight = NoFrames
  /\ rafLoops = [o \in Origins |-> 0]
  /\ drawn = Blank
  /\ requested = {}
  /\ failedFrames = {}
  /\ ticks = 0
  /\ drawErrors = 0
  /\ onReadyCalls = 0
  /\ onErrorCalls = 0
  /\ onLoadCalls = 0
  /\ paused = FALSE
  /\ destroyed = FALSE
  /\ calls = 0
  /\ events = 0
  /\ supportsWebP = "null"
  /\ scrollCallbacks = 0
  /\ succeeded = {}
  /\ lastJump = NoJump
  /\ ambient = NoAmbient
  /\ ambientWindow = NoAmbientWindow

(***************************************************************************)
(* init() and preloadImages(), from one await to the next.                 *)
(***************************************************************************)
\* updateScrollPosition(), with loadedImages = loaded and the loads infl
updateScrollPosition(loaded, infl) ==
  LET target == TargetOf(pageYOffset, totalFrames)
      lazy   == LazyFrames(target \div Unit, loaded, totalFrames)
  IN  /\ \A i \in lazy : infl[i] < MaxInFlight
      /\ scrollVelocity' = Abs(pageYOffset - lastScrollY)
      /\ lastScrollY' = pageYOffset
      /\ targetFrame' = target
      /\ inflight' = Request(infl, lazy)
      /\ requested' = requested \cup lazy

\* startAnimationLoop(), called from origin
startAnimationLoop(origin) ==
  /\ rafLoops' = [rafLoops EXCEPT ![origin] = @ + 1]
  /\ animationFrameId' = origin

\* (mutant of InitFails: the catch block logs and does not report)
InitFailsSilently(infl) ==
  /\ pc' = "failed"
  /\ inflight' = infl
  /\ UNCHANGED <<onErrorCalls, requested, scrollListener, targetFrame,
                 lastScrollY, scrollVelocity, rafLoops, animationFrameId,
                 resizeListener, isLoading, onReadyCalls>>

\* init()'s catch block
InitFails(infl) ==
  /\ pc' = "failed"
  /\ onErrorCalls' = onErrorCalls + 1
  /\ inflight' = infl
  /\ UNCHANGED <<requested, scrollListener, targetFrame, lastScrollY,
                 scrollVelocity, rafLoops, animationFrameId, resizeListener,
                 isLoading, onReadyCalls>>

\* init() after `await this.preloadImages()`: lines 84-97
FinishInit(loaded, infl) ==
  /\ scrollListener' = TRUE
  /\ updateScrollPosition(loaded, infl)
  /\ startAnimationLoop("init")
  /\ resizeListener' = TRUE
  /\ isLoading' = FALSE
  /\ onReadyCalls' = onReadyCalls + 1
  /\ pc' = "ready"
  /\ UNCHANGED onErrorCalls

\* preloadImages() resumed at priority frame k (k = 4: past the last one),
\* with the images, loadedImages, loads in flight and context of this step
ContinuePreload(k, imgs, loaded, infl, hasCtx, throws) ==
  LET k2     == NextPriority(k, loaded, totalFrames)
      raises == /\ throws
                /\ drawErrors < MaxDrawErrors
                /\ 0 \in imgs
                /\ DrawReachesCanvas(0, imgs, hasCtx)
      rest   == {i \in 0 .. (totalFrames - 1) : i \notin PrioritySet(totalFrames)}
      toLoad == rest \ loaded
  IN  IF k2 <= 3
        THEN /\ pc' = PrioPc[k2]
             /\ inflight' = Request(infl, {PriorityFrames(totalFrames)[k2]})
             /\ requested' = requested \cup {PriorityFrames(totalFrames)[k2]}
             /\ UNCHANGED <<drawn, drawErrors, scrollListener, targetFrame,
                            lastScrollY, scrollVelocity, rafLoops,
                            animationFrameId, resizeListener, isLoading,
                            onReadyCalls, onErrorCalls>>
        ELSE IF raises
          THEN /\ drawn' = Blank
               /\ drawErrors' = drawErrors + 1
               /\ InitFails(infl)
          ELSE /\ drawn' = IF 0 \in imgs
                             THEN drawFrameWithBlending(0, imgs, hasCtx, totalFrames, drawn)
                             ELSE drawn
               /\ UNCHANGED drawErrors
               /\ IF toLoad = {}
                    THEN FinishInit(loaded, infl)
                    ELSE /\ pc' = "rest"
                         /\ inflight' = Request(infl, toLoad)
                         /\ requested' = requested \cup toLoad
                         /\ UNCHANGED <<scrollListener, targetFrame, lastScrollY,
                                        scrollVelocity, rafLoops, animationFrameId,
                                        resizeListener, isLoading, onReadyCalls,
                                        onErrorCalls>>

\* (mutant of FallbackFormat: the test of the probe's result is inverted)
FallbackFormatInverted(result, format) == IF result THEN "jpg" ELSE format

\* init(), lines 73-76: config.imageFormat after the probe
FallbackFormat(result, format) == IF result THEN format ELSE "jpg"

\* The WebP probe settles: init() runs from line 73 to the first priority load.
\* setupCanvas() throws when the canvas is missing; resizeCanvas() redraws.
ProbeSettles(result, throws) ==
  /\ pc = "probe"
  /\ supportsWebP' = IF result THEN "true" ELSE "false"
  /\ imageFormat' = FallbackFormat(result, imageFormat)
  /\ IF ~canvasPresent
       THEN /\ InitFails(inflight)
            /\ UNCHANGED <<ctx, drawn, drawErrors>>
       ELSE /\ ctx' = TRUE
            /\ ContinuePreload(1, images, loadedImages, inflight, TRUE, throws)
  /\ lastJump' = NoJump
  /\ UNCHANGED <<ambient, ambientWindow, innerWidth, succeeded, scrollCallbacks,
                 calls, events, canvasPresent, pageYOffset, totalFrames, images, loadedImages,
                 loadedCount, isMobile, currentFrame, velocity, ticking,
                 resizeTimeout, failedFrames, ticks, onLoadCalls, paused,
                 destroyed>>

\* (mutant of updateProgress: onLoad fires from the last frame on)
updateProgressAtLeast(count, n) == count >= n

\* updateProgress(): config.onLoad is invoked (with loadedCount = count)
updateProgress(count, n) == count = n

\* the init() continuation a settled load of frame i wakes, if any
Awaited(i) ==
  \/ \E k \in 1..3 : pc = PrioPc[k] /\ PriorityFrames(totalFrames)[k] = i
  \/ pc = "rest"

AwaitedPriority == CHOOSE k \in 1..3 : pc = PrioPc[k]

\* img.onload of a load of frame i, then the continuation of the awaiting code
LoadSucceeds(i, throws) ==
  LET infl   == [inflight EXCEPT ![i] = @ - 1]
      imgs   == images \cup {i}
      loaded == loadedImages \cup {i}
  IN  /\ inflight[i] > 0
      /\ loadedCount < MaxLoaded
      /\ images' = imgs
      /\ loadedImages' = loaded
      /\ loadedCount' = loadedCount + 1
      /\ succeeded' = succeeded \cup {i}
      /\ onLoadCalls' = IF updateProgress(loadedCount + 1, totalFrames)
                          THEN onLoadCalls + 1 ELSE onLoadCalls
      /\ IF pc \in {"prio1", "prio2", "prio3"} /\ Awaited(i)
           THEN ContinuePreload(AwaitedPriority + 1, imgs, loaded, infl, ctx, throws)
           ELSE IF pc = "rest" /\ NoneInFlight(infl)
             THEN /\ FinishInit(loaded, infl)
                  /\ UNCHANGED <<drawn, drawErrors>>
             ELSE /\ inflight' = infl
                  /\ UNCHANGED <<pc, requested, drawn, drawErrors, scrollListener,
                                 targetFrame, lastScrollY, scrollVelocity, rafLoops,
                                 animationFrameId, resizeListener, isLoading,
                                 onReadyCalls, onErrorCalls>>
      /\ lastJump' = NoJump
      /\ UNCHANGED <<ambient, ambientWindow, innerWidth, supportsWebP, scrollCallbacks,
                     calls, events, canvasPresent, pageYOffset, totalFrames, imageFormat, ctx,
                     isMobile, currentFrame, velocity, ticking, resizeTimeout,
                     failedFrames, ticks, paused, destroyed>>

\* img.onerror of a load of frame i: the promise rejects; an awaiting init()
\* lands in its catch block, a lazy load's rejection is swallowed
LoadFails(i) ==
  LET infl == [inflight EXCEPT ![i] = @ - 1]
  IN  /\ inflight[i] > 0
      /\ failedFrames' = failedFrames \cup {i}
      /\ IF Awaited(i)
           THEN InitFails(infl)
           ELSE /\ inflight' = infl
                /\ UNCHANGED <<pc, requested, scrollListener, targetFrame,
                               lastScrollY, scrollVelocity, rafLoops,
                               animationFrameId, resizeListener, isLoading,
                               onReadyCalls, onErrorCalls>>
      /\ lastJump' = NoJump
      /\ UNCHANGED <<ambient, ambientWindow, innerWidth, supportsWebP, succeeded, scrollCallbacks,
                     calls, events, canvasPresent, pageYOffset, totalFrames, imageFormat, ctx,
                     images, loadedImages, loadedCount, isMobile, currentFrame,
                     velocity, ticking, resizeTimeout, drawn, ticks, drawErrors,
                     onLoadCalls, paused, destroyed>>

(***************************************************************************)
(* The listeners.                                                          *)
(***************************************************************************)
\* (mutant of Schedules: the `ticking` flag is not consulted)
SchedulesAlways(listening, flag) == listening

\* handleScroll requests a frame callback: it is attached and `ticking` is clear
Schedules(listening, flag) == listening /\ ~flag

\* the user scrolls to y; handleScroll, when attached, runs
handleScroll(y) ==
  /\ y # pageYOffset
  /\ pageYOffset' = y
  /\ scrollCallbacks' = IF Schedules(scrollListener, ticking)
                           THEN scrollCallbacks + 1 ELSE scrollCallbacks
  /\ ticking' = IF scrollListener THEN TRUE ELSE ticking
  /\ lastJump' = NoJump
  /\ UNCHANGED <<ambient, ambientWindow, innerWidth, supportsWebP, succeeded,
                 calls, canvasPresent, totalFrames, imageFormat, ctx, images,
                 loadedImages, loadedCount, isLoading, isMobile, animationFrameId,
                 currentFrame, targetFrame, velocity, lastScrollY, scrollVelocity,
                 pc, scrollListener, resizeListener, resizeTimeout, inflight,
                 rafLoops, drawn, requested, failedFrames, ticks, drawErrors,
                 onReadyCalls, onErrorCalls, onLoadCalls, paused, destroyed>>

\* a scroll event, among the events that are followed
ScrollEvent(y) ==
  /\ events < MaxEvents
  /\ events' = events + 1
  /\ handleScroll(y)

\* (mutant of TickingAfterCallback: the callback leaves `ticking` as it is)
TickingKeptAfterCallback(flag) == flag

\* `ticking` when the frame callback has run: it is cleared
TickingAfterCallback(flag) == FALSE

\* a frame callback handleScroll scheduled
ScrollFrame ==
  /\ scrollCallbacks > 0
  /\ scrollCallbacks' = scrollCallbacks - 1
  /\ updateScrollPosition(loadedImages, inflight)
  /\ ticking' = TickingAfterCallback(ticking)
  /\ lastJump' = NoJump
  /\ UNCHANGED <<ambient, ambientWindow, innerWidth, supportsWebP, succeeded,
                 calls, events, canvasPresent, pageYOffset, totalFrames, imageFormat, ctx,
                 images, loadedImages, loadedCount, isLoading, isMobile,
                 animationFrameId, currentFrame, velocity, pc, scrollListener,
                 resizeListener, resizeTimeout, rafLoops, drawn, failedFrames,
                 ticks, drawErrors, onReadyCalls, onErrorCalls, onLoadCalls,
                 paused, destroyed>>

\* (mutant of Rescheduled: the pending timer is not cleared)
RescheduledNoClear(pending) == pending + 1

\* the pending timers after clearTimeout(resizeTimeout) and setTimeout(.., 250):
\* the timer resizeTimeout names is the one set last
Rescheduled(pending) == (IF pending > 0 THEN pending - 1 ELSE 0) + 1

\* the window is resized; handleResize, when attached, runs
handleResize ==
  /\ resizeListener
  /\ resizeTimeout' = Rescheduled(resizeTimeout)
  /\ lastJump' = NoJump
  /\ UNCHANGED <<ambient, ambientWindow, innerWidth, supportsWebP, succeeded, scrollCallbacks,
                 calls, canvasPresent, pageYOffset, totalFrames, imageFormat, ctx,
                 images, loadedImages, loadedCount, isLoading, isMobile,
                 animationFrameId, currentFrame, targetFrame, velocity,
                 lastScrollY, scrollVelocity, pc, scrollListener, ticking,
                 resizeListener, inflight, rafLoops, drawn, requested,
                 failedFrames, ticks, drawErrors, onReadyCalls, onErrorCalls,
                 onLoadCalls, paused, destroyed>>

\* a resize event, among the events that are followed
ResizeEvent ==
  /\ events < MaxEvents
  /\ events' = events + 1
  /\ handleResize

\* a draw by drawFrameWithBlending(exactFrame) that may raise
Draw(exactFrame, throws) ==
  IF throws /\ drawErrors < MaxDrawErrors /\ DrawReachesCanvas(exactFrame, images, ctx)
    THEN /\ drawn' = Blank
         /\ drawErrors' = drawErrors + 1
    ELSE /\ drawn' = drawFrameWithBlending(exactFrame, images, ctx, totalFrames, drawn)
         /\ UNCHANGED drawErrors

\* the timer fires 250 ms after the last resize event: resizeCanvas()
ResizeFires(throws) ==
  /\ resizeTimeout > 0
  /\ resizeTimeout' = resizeTimeout - 1
  /\ IF ctx /\ (currentFrame \div Unit) \in images
       THEN Draw(currentFrame, throws)
       ELSE UNCHANGED <<drawn, drawErrors>>
  /\ lastJump' = NoJump
  /\ UNCHANGED <<ambient, ambientWindow, innerWidth, supportsWebP, succeeded, scrollCallbacks,
                 calls, events, canvasPresent, pageYOffset, totalFrames, imageFormat, ctx,
                 images, loadedImages, loadedCount, isLoading, isMobile,
                 animationFrameId, currentFrame, targetFrame, velocity,
                 lastScrollY, scrollVelocity, pc, scrollListener, ticking,
                 resizeListener, inflight, rafLoops, requested, failedFrames,
                 ticks, onReadyCalls, onErrorCalls, onLoadCalls, paused,
                 destroyed>>

(***************************************************************************)
(* The draw loop.                                                          *)
(***************************************************************************)
\* currentFrame after one animate, given the new velocity
NextFrame(cur, v) == SnapFrame(ClampFrame(cur + v, totalFrames), v)

\* The ticks an instance constructed with options.smoothing = smoothing needs
\* to bring currentFrame onto a target that is held, k ticks having run
\* (MaxHorizon + 1: not within MaxHorizon ticks).  config.smoothing is stored
\* by the constructor; animate computes with adaptiveSmoothness only.
RECURSIVE TicksToTarget(_, _, _, _, _, _)
TicksToTarget(smoothing, cur, v, target, sv, k) ==
  IF cur = target THEN k
  ELSE IF k = MaxHorizon THEN MaxHorizon + 1
  ELSE LET v2 == SpringVelocity(v, target - cur, sv)
       IN  TicksToTarget(smoothing, NextFrame(cur, v2), v2, target, sv, k + 1)

\* the body of animate for a pending callback of the loop started by origin;
\* a draw that raises leaves animate before line 380 re-schedules it
animateBody(origin, throws) ==
  LET v      == SpringVelocity(velocity, targetFrame - currentFrame, scrollVelocity)
      cur    == NextFrame(currentFrame, v)
      raises == /\ throws
                /\ drawErrors < MaxDrawErrors
                /\ DrawReachesCanvas(cur, images, ctx)
  IN  /\ rafLoops[origin] > 0
      /\ velocity' = v
      /\ currentFrame' = cur
      /\ Draw(cur, throws)
      /\ IF raises
           THEN /\ rafLoops' = [rafLoops EXCEPT ![origin] = @ - 1]
                /\ animationFrameId' \in
                     IF animationFrameId # origin THEN {animationFrameId}
                     ELSE IF rafLoops[origin] = 1 THEN {"stale"}
                     ELSE {origin, "stale"}
           ELSE /\ animationFrameId' = origin
                /\ UNCHANGED rafLoops
      /\ lastJump' = NoJump
      /\ UNCHANGED <<ambient, ambientWindow, innerWidth, supportsWebP, succeeded, scrollCallbacks,
                     calls, events, canvasPresent, pageYOffset, totalFrames, imageFormat, ctx,
                     images, loadedImages, loadedCount, isLoading, isMobile,
                     targetFrame, lastScrollY, scrollVelocity, pc, scrollListener,
                     ticking, resizeListener, resizeTimeout, inflight, requested,
                     failedFrames, onReadyCalls, onErrorCalls, onLoadCalls,
                     paused, destroyed>>

animate(origin, throws) ==
  /\ ticks < MaxTicks
  /\ ticks' = ticks + 1
  /\ animateBody(origin, throws)

(***************************************************************************)
(* The public operations.                                                  *)
(***************************************************************************)
\* lastJump after jumpToFrame(frameIndex), which raised or returned
Jumped(frameIndex, raised) ==
  IF raised
    THEN NoJump
    ELSE [called    |-> TRUE,
          frameIndex |-> frameIndex,
          repeated  |-> lastJump.called /\ lastJump.frameIndex = frameIndex]

\* (mutant of jumpToFrame: the index is added to the frame the player is on)
jumpToFrameRelative(frameIndex, throws) ==
  LET clampedIndex == JumpTarget(currentFrame + frameIndex, totalFrames)
  IN  /\ currentFrame' = clampedIndex
      /\ targetFrame' = clampedIndex
      /\ Draw(MathFloor(clampedIndex), throws)
      /\ UNCHANGED <<ambient, ambientWindow, innerWidth, supportsWebP, succeeded, scrollCallbacks,
                     events, canvasPresent, pageYOffset, totalFrames,
                     imageFormat, ctx, images, loadedImages, loadedCount,
                     isLoading, isMobile, animationFrameId, velocity,
                     lastScrollY, scrollVelocity, pc, scrollListener, ticking,
                     resizeListener, resizeTimeout, inflight, rafLoops,
                     requested, failedFrames, ticks, onReadyCalls,
                     onErrorCalls, onLoadCalls, paused, destroyed>>

jumpToFrame(frameIndex, throws) ==
  LET clampedIndex == JumpTarget(frameIndex, totalFrames)
  IN  /\ currentFrame' = clampedIndex
      /\ targetFrame' = clampedIndex
      /\ Draw(MathFloor(clampedIndex), throws)
      /\ UNCHANGED <<ambient, ambientWindow, innerWidth, supportsWebP, succeeded, scrollCallbacks,
                     events, canvasPresent, pageYOffset, totalFrames,
                     imageFormat, ctx, images, loadedImages, loadedCount,
                     isLoading, isMobile, animationFrameId, velocity,
                     lastScrollY, scrollVelocity, pc, scrollListener, ticking,
                     resizeListener, resizeTimeout, inflight, rafLoops,
                     requested, failedFrames, ticks, onReadyCalls,
                     onErrorCalls, onLoadCalls, paused, destroyed>>

jumpToProgress(percentage, throws) ==
  jumpToFrame(ProgressFrame(percentage, totalFrames), throws)

\* a call of a public operation, among the calls that are followed
Call ==
  /\ calls < MaxCalls
  /\ calls' = calls + 1

CallJumpToFrame(frameIndex, throws) ==
  /\ Call
  /\ jumpToFrame(frameIndex, throws)
  /\ lastJump' = NoJump

CallJumpToProgress(percentage, throws) ==
  /\ Call
  /\ jumpToProgress(percentage, throws)
  /\ lastJump' = NoJump

\* cancelAnimationFrame(this.animationFrameId): a no-op for an id that is stale
CancelNamed ==
  IF animationFrameId \in Origins
    THEN [rafLoops EXCEPT ![animationFrameId] = @ - 1]
    ELSE rafLoops

pause ==
  /\ calls < MaxCalls
  /\ calls' = calls + 1
  /\ rafLoops' = IF animationFrameId # "null" THEN CancelNamed ELSE rafLoops
  /\ animationFrameId' = "null"
  /\ paused' = TRUE
  /\ lastJump' = NoJump
  /\ UNCHANGED <<ambient, ambientWindow, innerWidth, supportsWebP, succeeded, scrollCallbacks,
                 events, canvasPresent, pageYOffset, totalFrames, imageFormat, ctx,
                 images, loadedImages, loadedCount, isLoading, isMobile,
                 currentFrame, targetFrame, velocity, lastScrollY, scrollVelocity,
                 pc, scrollListener, ticking, resizeListener, resizeTimeout,
                 inflight, drawn, requested, failedFrames, ticks, drawErrors,
                 onReadyCalls, onErrorCalls, onLoadCalls, destroyed>>

resume ==
  /\ calls < MaxCalls
  /\ calls' = calls + 1
  /\ IF animationFrameId = "null"
       THEN startAnimationLoop("resume")
       ELSE UNCHANGED <<rafLoops, animationFrameId>>
  /\ paused' = FALSE
  /\ lastJump' = NoJump
  /\ UNCHANGED <<ambient, ambientWindow, innerWidth, supportsWebP, succeeded, scrollCallbacks,
                 events, canvasPresent, pageYOffset, totalFrames, imageFormat, ctx,
                 images, loadedImages, loadedCount, isLoading, isMobile,
                 currentFrame, targetFrame, velocity, lastScrollY, scrollVelocity,
                 pc, scrollListener, ticking, resizeListener, resizeTimeout,
                 inflight, drawn, requested, failedFrames, ticks, drawErrors,
                 onReadyCalls, onErrorCalls, onLoadCalls, destroyed>>

destroy ==
  /\ calls < MaxCalls
  /\ calls' = calls + 1
  /\ rafLoops' = IF animationFrameId # "null" THEN CancelNamed ELSE rafLoops
  /\ animationFrameId' = IF animationFrameId = "null" THEN "null" ELSE "stale"
  /\ images' = {}
  /\ loadedImages' = {}
  /\ drawn' = IF ctx THEN Blank ELSE drawn
  /\ ctx' = FALSE
  /\ destroyed' = TRUE
  /\ lastJump' = NoJump
  /\ UNCHANGED <<ambient, ambientWindow, innerWidth, supportsWebP, succeeded, scrollCallbacks,
                 events, canvasPresent, pageYOffset, totalFrames, imageFormat,
                 loadedCount, isLoading, isMobile, currentFrame, targetFrame,
                 velocity, lastScrollY, scrollVelocity, pc, scrollListener,
                 ticking, resizeListener, resizeTimeout, inflight, requested,
                 failedFrames, ticks, drawErrors, onReadyCalls, onErrorCalls,
                 onLoadCalls, paused>>

(***************************************************************************)
(* The specification.                                                      *)
(***************************************************************************)
Next ==
  \/ \E w \in BOOLEAN, t \in BOOLEAN : ProbeSettles(w, t)
  \/ \E i \in Frames, t \in BOOLEAN : LoadSucceeds(i, t)
  \/ \E i \in Frames : LoadFails(i)
  \/ \E y \in ScrollPositions : ScrollEvent(y)
  \/ ScrollFrame
  \/ ResizeEvent
  \/ \E t \in BOOLEAN : ResizeFires(t)
  \/ \E o \in Origins, t \in BOOLEAN : animate(o, t)
  \/ \E f \in JumpFrames, t \in BOOLEAN : CallJumpToFrame(f, t)
  \/ \E p \in JumpPercents, t \in BOOLEAN : CallJumpToProgress(p, t)
  \/ pause
  \/ resume
  \/ destroy

Spec == Init /\ [][Next]_vars

(***************************************************************************)
(* The draw loop with the scroll position held fixed: an instance that is  *)
(* ready, every frame loaded, one loop running, and no event or call.      *)
(* The browser runs a pending frame callback at the next repaint, whence   *)
(* the weak fairness of the tick.                                          *)
(***************************************************************************)
\* targets a quarter of a frame apart, over the whole range
HeldTargets == {q * (Unit \div 4) : q \in 0 .. (4 * (MaxFrames - 1))}

HeldStarts == {0, Unit + (Unit \div 2), (MaxFrames - 1) * Unit}

HeldVelocities == {-(Unit \div 5), 0, Unit \div 5}

InitHold ==
  /\ canvasPresent = TRUE
  /\ pageYOffset = 0
  /\ isMobile = FALSE
  /\ totalFrames = MaxFrames
  /\ imageFormat = "webp"
  /\ ctx = TRUE
  /\ images = Frames
  /\ loadedImages = Frames
  /\ loadedCount = MaxFrames
  /\ isLoading = FALSE
  /\ animationFrameId = "init"
  /\ currentFrame \in HeldStarts
  /\ targetFrame \in HeldTargets
  /\ velocity \in HeldVelocities
  /\ lastScrollY = 0
  /\ scrollVelocity \in {0, FastScroll + 1}
  /\ pc = "ready"
  /\ scrollListener = TRUE
  /\ ticking = FALSE
  /\ resizeListener = TRUE
  /\ resizeTimeout = 0
  /\ inflight = NoFrames
  /\ rafLoops = [o \in Origins |-> IF o = "init" THEN 1 ELSE 0]
  /\ drawn = Blank
  /\ requested = Frames
  /\ failedFrames = {}
  /\ ticks = 0
  /\ drawErrors = 0
  /\ onReadyCalls = 1
  /\ onErrorCalls = 0
  /\ onLoadCalls = 1
  /\ paused = FALSE
  /\ destroyed = FALSE
  /\ calls = 0
  /\ events = 0
  /\ innerWidth = MobileBreakpoint + 1
  /\ supportsWebP = "true"
  /\ scrollCallbacks = 0
  /\ succeeded = Frames
  /\ lastJump = NoJump
  /\ ambient = NoAmbient
  /\ ambientWindow = NoAmbientWindow

\* one animate of the running loop; the count of ticks stops at MaxTicks
HoldTick ==
  /\ animateBody("init", FALSE)
  /\ ticks' = Min(ticks + 1, MaxTicks)

NextHold == HoldTick

SpecHold == InitHold /\ [][NextHold]_vars /\ WF_vars(HoldTick)

(***************************************************************************)
(* Between two ticks of the draw loop: an instance that has just become    *)
(* ready (every frame loaded, frame 0 painted, the page at the top), a     *)
(* burst of scroll events and their frame callbacks, and calls of          *)
(* jumpToFrame / jumpToProgress one after the other.                       *)
(***************************************************************************)
InitBurst ==
  /\ canvasPresent = TRUE
  /\ pageYOffset = 0
  /\ innerWidth \in {MobileBreakpoint, MobileBreakpoint + 1}
  /\ isMobile = (innerWidth <= MobileBreakpoint)
  /\ totalFrames = IF innerWidth <= MobileBreakpoint
                     THEN MobileFrameCount ELSE MaxFrames
  /\ imageFormat = "webp"
  /\ supportsWebP = "true"
  /\ ctx = TRUE
  /\ images = 0 .. (totalFrames - 1)
  /\ loadedImages = 0 .. (totalFrames - 1)
  /\ succeeded = 0 .. (totalFrames - 1)
  /\ requested = 0 .. (totalFrames - 1)
  /\ loadedCount = totalFrames
  /\ isLoading = FALSE
  /\ animationFrameId = "init"
  /\ currentFrame = 0
  /\ targetFrame = 0
  /\ velocity = 0
  /\ lastScrollY = 0
  /\ scrollVelocity = 0
  /\ pc = "ready"
  /\ scrollListener = TRUE
  /\ ticking = FALSE
  /\ scrollCallbacks = 0
  /\ resizeListener = TRUE
  /\ resizeTimeout = 0
  /\ inflight = NoFrames
  /\ rafLoops = [o \in Origins |-> IF o = "init" THEN 1 ELSE 0]
  /\ drawn = [frame |-> 0, blended |-> FALSE]
  /\ failedFrames = {}
  /\ ticks = 0
  /\ drawErrors = 0
  /\ onReadyCalls = 1
  /\ onErrorCalls = 0
  /\ onLoadCalls = 1
  /\ paused = FALSE
  /\ destroyed = FALSE
  /\ calls = 0
  /\ events = 0
  /\ lastJump = NoJump
  /\ ambient = NoAmbient
  /\ ambientWindow = NoAmbientWindow

\* a scroll event of the burst
BurstScroll(y) ==
  /\ events < MaxBurst
  /\ events' = events + 1
  /\ handleScroll(y)

\* a call of the sequence of jumps
Jump ==
  /\ calls < MaxJumps
  /\ calls' = calls + 1

BurstJumpToFrame(frameIndex, throws) ==
  /\ Jump
  /\ jumpToFrame(frameIndex, throws)
  /\ lastJump' = Jumped(frameIndex, drawErrors' > drawErrors)

BurstJumpToProgress(percentage, throws) ==
  /\ Jump
  /\ jumpToProgress(percentage, throws)
  /\ lastJump' = Jumped(ProgressFrame(percentage, totalFrames),
                        drawErrors' > drawErrors)

NextBurst ==
  \/ \E y \in ScrollPositions : BurstScroll(y)
  \/ ScrollFrame
  \/ \E f \in JumpFrames, t \in BOOLEAN : BurstJumpToFrame(f, t)
  \/ \E p \in JumpPercents, t \in BOOLEAN : BurstJumpToProgress(p, t)

SpecBurst == InitBurst /\ [][NextBurst]_vars

(***************************************************************************)
(* The scroll-to-frame mapping over every scroll position: the same ready  *)
(* instance, the page dragged one px up or down per animation frame, from  *)
(* past the top to past the bottom.                                        *)
(***************************************************************************)
SweepPositions == (-Overscroll) .. (ScrollHeight + Overscroll)

\* the user scrolls by d px once the callback of the last event has run
Sweep(d) ==
  /\ ~ticking
  /\ (pageYOffset + d) \in SweepPositions
  /\ handleScroll(pageYOffset + d)
  /\ UNCHANGED events

NextSweep ==
  \/ \E d \in {-1, 1} : Sweep(d)
  \/ ScrollFrame

SpecSweep == InitBurst /\ [][NextSweep]_vars

(***************************************************************************)
(* Jumps while the spring is moving: the ready instance with its draw loop *)
(* running, scroll events, and calls of jumpToFrame with a whole index     *)
(* inside the range.                                                       *)
(***************************************************************************)
\* the whole frame indices that are neither the first nor the last frame
JumpIndices == {i * Unit : i \in 1 .. (MaxFrames - 2)}

NextJump ==
  \/ \E y \in ScrollPositions : BurstScroll(y)
  \/ ScrollFrame
  \/ \E t \in BOOLEAN : animate("init", t)
  \/ \E f \in JumpIndices, t \in BOOLEAN : BurstJumpToFrame(f, t)

SpecJump == InitBurst /\ [][NextJump]_vars

(***************************************************************************)
(* Bursts of resize events: the ready instance with its draw loop running, *)
(* scroll and resize events, and the 250 ms timer of handleResize.  A      *)
(* timer that is pending fires once its delay has passed, whence the weak  *)
(* fairness of ResizeFires.                                                *)
(***************************************************************************)
\* a resize event of a burst
BurstResize ==
  /\ events < MaxBurst
  /\ events' = events + 1
  /\ handleResize

\* the pending timer fires
TimerFires == \E t \in BOOLEAN : ResizeFires(t)

NextResize ==
  \/ BurstResize
  \/ TimerFires
  \/ \E y \in ScrollPositions : BurstScroll(y)
  \/ ScrollFrame
  \/ \E t \in BOOLEAN : animate("init", t)

SpecResize == InitBurst /\ [][NextResize]_vars /\ WF_vars(TimerFires)

(***************************************************************************)
(* Scroll bursts with the draw loop running or paused: the ready instance, *)
(* scroll events, the frame callbacks of handleScroll, the draw loop, and  *)
(* pause() / resume().  The browser runs a pending frame callback at the   *)
(* next repaint, whence the weak fairness of ScrollFrame.                  *)
(***************************************************************************)
NextCoalesce ==
  \/ \E y \in ScrollPositions : BurstScroll(y)
  \/ ScrollFrame
  \/ \E t \in BOOLEAN : animate("init", t)
  \/ pause
  \/ resume

SpecCoalesce == InitBurst /\ [][NextCoalesce]_vars /\ WF_vars(ScrollFrame)

(***************************************************************************)
(* ForestAmbient (the overlay class printed in DEPLOY.md): one instance,   *)
(* its entity pools, its scroll listener and decay timer, its draw loop,   *)
(* updateProgress() and destroy().  Positions, speeds, opacities and the   *)
(* velocity multiplier are fixed-point, in 1/Unit of a px or of 1.         *)
(***************************************************************************)
\* the product of two fixed-point numbers
Scale(a, b) == RoundDiv(a * b, Unit)

\* the variables of the ForestScroller instance and of its page
scrollerVars == <<canvasPresent, pageYOffset, totalFrames, imageFormat, ctx,
                  images, loadedImages, loadedCount, isLoading, isMobile,
                  animationFrameId, currentFrame, targetFrame, velocity,
                  lastScrollY, scrollVelocity, pc, scrollListener, ticking,
                  resizeListener, resizeTimeout, inflight, rafLoops, drawn,
                  requested, failedFrames, ticks, drawErrors, onReadyCalls,
                  onErrorCalls, onLoadCalls, paused, destroyed, calls, events,
                  innerWidth, supportsWebP, scrollCallbacks, succeeded,
                  lastJump>>

\* options.particleSpeed's default 0.3
ParticleSpeed == (3 * Unit) \div 10

\* the entities wrap 10 px outside the viewport
WrapMargin == 10 * Unit

\* Math.min(deltaScroll / 50, 3): the px of scroll per unit, and the cap
VelocityPx == 50

VelocityCap == 3 * Unit

\* the widths the window takes, in px
ViewWidths == {ViewWidth, 2 * ViewWidth}

\* window.pageYOffset as the overlay's scroll listener reads it: the top, a
\* slow scroll and a fast one
AmbientScrollPositions == {0, 20, 200}

\* the arguments of updateProgress: the player's progress, in [0, 1]
AmbientProgress == {0, Unit \div 4, Unit \div 2, (3 * Unit) \div 4, Unit}

\* Math.random() * window.innerWidth, at the two ends of its range
RandomX(w) == {0, (w - 1) * Unit}

\* one particle of createParticles: the draws make it drift to the left
\* (dir = -1) or to the right (dir = 1) by 0.198 px and down by 0.33 px a
\* frame, at depth 0.5
NewParticle(dir, w, h) ==
  [x      |-> IF dir > 0 THEN (w - 1) * Unit ELSE 0,
   y      |-> (h - 1) * Unit,
   speedX |-> dir * Scale((44 * Unit) \div 100, ParticleSpeed),
   speedY |-> Scale((133 * Unit) \div 1000, ParticleSpeed \div 2) + (Unit \div 5),
   depth  |-> Unit \div 2]

\* one sparkle of createSparkles, drifting as fast, at depth 0.5 * 0.5 + 0.5
NewSparkle(dir, w, h) ==
  [x          |-> IF dir > 0 THEN (w - 1) * Unit ELSE 0,
   y          |-> (h - 1) * Unit,
   baseSpeedX |-> dir * Scale((45 * Unit) \div 100, (4 * Unit) \div 10),
   baseSpeedY |-> Scale((667 * Unit) \div 1000, (3 * Unit) \div 10) + (Unit \div 10),
   speedX     |-> 0,
   speedY     |-> 0,
   depth      |-> (3 * Unit) \div 4]

\* (mutant of WrapX: an entity past the right edge is not wrapped)
WrapXLeftOnly(x, w) ==
  IF x < -WrapMargin THEN w * Unit + WrapMargin ELSE x

\* the horizontal wrap: past the left margin to the right one, and back
WrapX(x, w) ==
  IF x < -WrapMargin THEN w * Unit + WrapMargin
  ELSE IF x > w * Unit + WrapMargin THEN -WrapMargin
  ELSE x

\* 'Wrap around screen': the position of an entity moved to (x, y); below the
\* bottom margin it re-enters at the top with the fresh horizontal draw r
Wrapped(e, x, y, w, h, r) ==
  IF y > h * Unit + WrapMargin
    THEN [e EXCEPT !.x = r, !.y = -WrapMargin]
    ELSE [e EXCEPT !.x = WrapX(x, w), !.y = y]

\* the entity e lies within the wrap margin, and slack more, of the viewport
InsideMargin(e, w, h, slack) ==
  /\ e.x >= -(WrapMargin + slack)
  /\ e.x <= w * Unit + WrapMargin + slack
  /\ e.y >= -(WrapMargin + slack)
  /\ e.y <= h * Unit + WrapMargin + slack

\* no entity moves more than 3 px in one frame: speedY < 0.35 and
\* baseSpeedY < 0.4, the depth factor is below 2, the multiplier at most 3
MaxStep == 3 * Unit

\* the step of drawParticles on one particle
drawParticle(e, velocityFactor, w, h, r) ==
  Wrapped(e,
          e.x + Scale(Scale(e.speedX, Unit + e.depth), velocityFactor),
          e.y + Scale(Scale(e.speedY, Unit + e.depth), velocityFactor),
          w, h, r)

\* the step of drawSparkles on one sparkle
drawSparkle(e, velocityFactor, w, h, r) ==
  LET sx == Scale(e.baseSpeedX, velocityFactor)
      sy == Scale(e.baseSpeedY, velocityFactor)
      k  == (8 * Unit) \div 10 + Scale(e.depth, (4 * Unit) \div 10)
  IN  Wrapped([e EXCEPT !.speedX = sx, !.speedY = sy],
              e.x + Scale(sx, k), e.y + Scale(sy, k), w, h, r)

\* (mutant of LightRayOpacity: the opacity grows with the progress)
LightRayOpacityLinear(progress) ==
  Scale(progress, Unit \div 2) + (2 * Unit) \div 10

\* lightRayOpacity as updateProgress(progress) sets it
LightRayOpacity(progress) ==
  LET midProgress == Unit - Abs(progress - Unit \div 2) * 2
  IN  Scale(midProgress, Unit \div 2) + (2 * Unit) \div 10

\* the state after `new ForestAmbient(options)`: the pools are filled, the
\* canvas is appended when the page has a parented #forest-canvas, animate()
\* has run once and requested its next frame, the scroll listener and the
\* decay timer are installed
InitAmbient ==
  /\ canvasPresent = TRUE
  /\ pageYOffset = 0
  /\ innerWidth = MobileBreakpoint + 1
  /\ isMobile = FALSE
  /\ totalFrames = MaxFrames
  /\ imageFormat = "webp"
  /\ ctx = FALSE
  /\ images = {}
  /\ loadedImages = {}
  /\ loadedCount = 0
  /\ isLoading = TRUE
  /\ animationFrameId = "null"
  /\ currentFrame = 0
  /\ targetFrame = 0
  /\ velocity = 0
  /\ lastScrollY = 0
  /\ scrollVelocity = 0
  /\ pc = "probe"
  /\ scrollListener = FALSE
  /\ ticking = FALSE
  /\ resizeListener = FALSE
  /\ resizeTimeout = 0
  /\ inflight = NoFrames
  /\ rafLoops = [o \in Origins |-> 0]
  /\ drawn = Blank
  /\ requested = {}
  /\ failedFrames = {}
  /\ ticks = 0
  /\ drawErrors = 0
  /\ onReadyCalls = 0
  /\ onErrorCalls = 0
  /\ onLoadCalls = 0
  /\ paused = FALSE
  /\ destroyed = FALSE
  /\ calls = 0
  /\ events = 0
  /\ supportsWebP = "null"
  /\ scrollCallbacks = 0
  /\ succeeded = {}
  /\ lastJump = NoJump
  /\ \E dir \in {-1, 1}, parented \in BOOLEAN :
       /\ ambient =
            [particles |-> [i \in 1 .. ParticleCount |->
                              NewParticle(IF i % 2 = 1 THEN dir ELSE -dir,
                                          ViewWidth, ViewHeight)],
             sparkles  |-> [i \in 1 .. SparkleCount |->
                              NewSparkle(IF i % 2 = 1 THEN -dir ELSE dir,
                                         ViewWidth, ViewHeight)],
             lightRayOpacity    |-> 0,
             animationFrameId   |-> "pending",
             scrollProgress     |-> 0,
             scrollVelocity     |-> 0,
             lastScrollY        |-> 0,
             velocityMultiplier |-> Unit]
       /\ ambientWindow =
            [parentElement |-> parented, frameCallbacks |-> 1,
             innerWidth |-> ViewWidth, innerHeight |-> ViewHeight,
             pageYOffset |-> 0, updated |-> FALSE, destroyed |-> FALSE,
             scrolls |-> 0, decays |-> 0, ticks |-> 0, destroys |-> 0]

\* the scroll listener of trackScrollVelocity: the user scrolls to y
ambientScroll(y) ==
  LET deltaScroll == Abs(y - ambient.lastScrollY)
      sv == Min((deltaScroll * Unit) \div VelocityPx, VelocityCap)
  IN  /\ y # ambientWindow.pageYOffset
      /\ ambientWindow.scrolls < MaxAmbientScrolls
      /\ ambient' = [ambient EXCEPT
                       !.scrollVelocity = sv,
                       !.velocityMultiplier = RoundDiv(9 * @ + sv, 10),
                       !.lastScrollY = y]
      /\ ambientWindow' = [ambientWindow EXCEPT !.pageYOffset = y,
                                                !.scrolls = @ + 1]
      /\ UNCHANGED scrollerVars

\* the setInterval callback of trackScrollVelocity, every 50 ms
decayVelocity ==
  /\ ambientWindow.decays < MaxDecays
  /\ ambient' = [ambient EXCEPT
                   !.scrollVelocity = RoundDiv(95 * @, 100),
                   !.velocityMultiplier = Max(Unit, RoundDiv(98 * @, 100))]
  /\ ambientWindow' = [ambientWindow EXCEPT !.decays = @ + 1]
  /\ UNCHANGED scrollerVars

\* updateProgress(progress), called by the page's script
ambientUpdateProgress(progress) ==
  /\ ambient' = [ambient EXCEPT !.scrollProgress = progress,
                                !.lightRayOpacity = LightRayOpacity(progress)]
  /\ ambientWindow' = [ambientWindow EXCEPT !.updated = TRUE]
  /\ UNCHANGED scrollerVars

\* the body of the overlay's animate for its pending frame callback: the
\* pools are moved and drawn, and the next frame is requested; rp and rs are
\* the horizontal draws of the entities that re-enter at the top
ambientAnimate(rp, rs) ==
  /\ ambientWindow.frameCallbacks > 0
  /\ ambient' = [ambient EXCEPT
       !.particles = [i \in DOMAIN @ |->
                        drawParticle(@[i], ambient.velocityMultiplier,
                                     ambientWindow.innerWidth,
                                     ambientWindow.innerHeight, rp[i])],
       !.sparkles  = [i \in DOMAIN @ |->
                        drawSparkle(@[i], ambient.velocityMultiplier,
                                    ambientWindow.innerWidth,
                                    ambientWindow.innerHeight, rs[i])],
       !.animationFrameId = "pending"]
  /\ UNCHANGED scrollerVars

\* the draws of one frame: Math.random() * window.innerWidth for each entity
\* that passes the bottom margin in this frame (0 where none is drawn)
ParticleDraws ==
  {rp \in [DOMAIN ambient.particles -> RandomX(ambientWindow.innerWidth)] :
     \A i \in DOMAIN ambient.particles :
       LET e == ambient.particles[i]
           y == e.y + Scale(Scale(e.speedY, Unit + e.depth),
                            ambient.velocityMultiplier)
       IN  y <= ambientWindow.innerHeight * Unit + WrapMargin => rp[i] = 0}

SparkleDraws ==
  {rs \in [DOMAIN ambient.sparkles -> RandomX(ambientWindow.innerWidth)] :
     \A i \in DOMAIN ambient.sparkles :
       LET e == ambient.sparkles[i]
           k == (8 * Unit) \div 10 + Scale(e.depth, (4 * Unit) \div 10)
           y == e.y + Scale(Scale(e.baseSpeedY, ambient.velocityMultiplier), k)
       IN  y <= ambientWindow.innerHeight * Unit + WrapMargin => rs[i] = 0}

\* a frame of the overlay, among the frames that are followed
AmbientTick ==
  /\ ambientWindow.ticks < MaxAmbientTicks
  /\ \E rp \in ParticleDraws, rs \in SparkleDraws : ambientAnimate(rp, rs)
  /\ ambientWindow' = [ambientWindow EXCEPT !.ticks = @ + 1]

\* ForestAmbient.destroy()
ambientDestroy ==
  /\ ambientWindow.destroys < MaxDestroys
  /\ ambient' = [ambient EXCEPT
                   !.particles = <<>>,
                   !.animationFrameId = IF @ = "null" THEN @ ELSE "stale"]
  /\ ambientWindow' = [ambientWindow EXCEPT
                         !.frameCallbacks =
                            IF ambient.animationFrameId = "pending"
                              THEN @ - 1 ELSE @,
                         !.parentElement = FALSE,
                         !.destroyed = TRUE,
                         !.destroys = @ + 1]
  /\ UNCHANGED scrollerVars

NextAmbient ==
  \/ \E y \in AmbientScrollPositions : ambientScroll(y)
  \/ decayVelocity
  \/ \E p \in AmbientProgress : ambientUpdateProgress(p)
  \/ AmbientTick
  \/ ambientDestroy

SpecAmbient == InitAmbient /\ [][NextAmbient]_vars

(***************************************************************************)
(* The overlay left to drift: nobody scrolls, the draw loop runs frame     *)
(* after frame, and the window is resized between frames.                  *)
(***************************************************************************)
\* a frame of the overlay
DriftTick ==
  /\ \E rp \in ParticleDraws, rs \in SparkleDraws : ambientAnimate(rp, rs)
  /\ UNCHANGED ambientWindow

\* the window is resized to the width w; the overlay's resize listener sets
\* the canvas' backing store, and the pools are left as they are
ambientResize(w) ==
  /\ w # ambientWindow.innerWidth
  /\ ambientWindow' = [ambientWindow EXCEPT !.innerWidth = w]
  /\ UNCHANGED ambient
  /\ UNCHANGED scrollerVars

NextDrift ==
  \/ DriftTick
  \/ \E w \in ViewWidths : ambientResize(w)

SpecDrift == InitAmbient /\ [][NextDrift]_vars

(***************************************************************************)
(* The claims.                                                             *)
(***************************************************************************)
\* C1: a frame whose load fails does not abort the preload batch: once every
\* requested load has settled (and no draw raised), init() has gone on to
\* attach the listeners and to invoke onReady.
C1_FailedLoadDoesNotAbortInit ==
  (canvasPresent /\ pc # "probe" /\ drawErrors = 0 /\ NoneInFlight(inflight))
    => (pc = "ready" /\ onReadyCalls = 1 /\ scrollListener /\ resizeListener)

\* C2: for every frame k whose load failed, the frames k-1 and k+1 are still
\* requested: once every load has settled, each neighbour of a failed frame
\* has had its load requested.
C2_NeighboursOfFailedFrameRequested ==
  (pc # "probe" /\ NoneInFlight(inflight))
    => \A k \in failedFrames :
         \A j \in {k - 1, k + 1} \cap (0 .. (totalFrames - 1)) : j \in requested

\* C3: after destroy(), a load that completes is a no-op: images, loadedImages
\* and loadedCount never change again, and neither onProgress (invoked with
\* every increment of loadedCount) nor onLoad fires.
C3_LateLoadIsNoOp ==
  [][destroyed => /\ images' = images
                  /\ loadedImages' = loadedImages
                  /\ loadedCount' = loadedCount
                  /\ onLoadCalls' = onLoadCalls]_vars

\* C4: from the return of pause() to the next resume(), no tick of the draw
\* loop executes, wherever in the initialization pause() was called.
C4_NoTickWhilePaused == [][paused => ticks' = ticks]_vars

\* C5: after destroy(), whenever it was called and whatever pause() / resume()
\* calls follow, no tick of the draw loop runs again.
C5_NoTickAfterDestroy == [][destroyed => ticks' = ticks]_vars

\* C6: in every reachable state, 0 <= currentFrame <= totalFrames-1 and
\* 0 <= targetFrame <= totalFrames-1.
C6_FramesInRange ==
  /\ 0 <= currentFrame /\ currentFrame <= (totalFrames - 1) * Unit
  /\ 0 <= targetFrame /\ targetFrame <= (totalFrames - 1) * Unit

\* C6, witness: a tick whose spring step overshot the last frame was clamped
\* to it (the velocity is still above the snap threshold).
C6_ClampActed ==
  /\ ticks > 0
  /\ currentFrame = (totalFrames - 1) * Unit
  /\ velocity >= VelocityThreshold

\* C7: with the scroll position held fixed, the draw loop eventually reaches
\* and stays in a state where |velocity| < 0.05 and currentFrame is exactly
\* round(targetFrame).
C7_SettlesOnRoundedTarget ==
  <>[](Abs(velocity) < VelocityThreshold /\ currentFrame = MathRound(targetFrame))

\* C8: when the canvas element cannot be found, onError is invoked exactly
\* once (when init() gives up), onReady never, and nothing of the
\* initialization is kept: no context, no frame load requested, no scroll or
\* resize listener attached, no draw loop started by init().
C8_MissingCanvasKeepsNothing ==
  ~canvasPresent =>
    /\ pc \in {"probe", "failed"}
    /\ onErrorCalls = (IF pc = "failed" THEN 1 ELSE 0)
    /\ onReadyCalls = 0
    /\ ~ctx
    /\ requested = {}
    /\ NoneInFlight(inflight)
    /\ ~scrollListener
    /\ ~resizeListener
    /\ rafLoops["init"] = 0
    /\ isLoading

\* C8, witness: init() has given up on a missing canvas and reported it.
C8_MissingCanvasReported ==
  ~canvasPresent /\ pc = "failed" /\ onErrorCalls = 1

\* C9: a tick whose draw raises an exception does not stop the loop: the
\* callback of the next tick is still scheduled after it.
C9_DrawErrorKeepsLoop ==
  [][(ticks' > ticks /\ drawErrors' > drawErrors) => LoopCount' = LoopCount]_vars

\* C10: there is at most one outstanding load request per frame index, and a
\* frame whose load failed has no request outstanding again.
C10_OneRequestPerFrame ==
  \A i \in Frames :
    /\ inflight[i] <= 1
    /\ i \in failedFrames => inflight[i] = 0

\* C11: during the initialization no load is requested for a frame other than
\* the three priority frames (0, floor(totalFrames/2), totalFrames-1) until
\* each of the three priority loads has completed.
C11_PriorityFramesFirst ==
  (requested \ PrioritySet(totalFrames)) # {}
    => PrioritySet(totalFrames) \subseteq succeeded

\* C11, witness: the priority loads are done and init() awaits the others.
C11_OthersRequested ==
  /\ pc = "rest"
  /\ (requested \ PrioritySet(totalFrames)) # {}
  /\ \E i \in Frames : inflight[i] > 0 /\ i \notin PrioritySet(totalFrames)

\* C12: the initialization runs in a fixed order in every execution that
\* reaches onReady: frame 0 is on the canvas when init() goes on from the
\* priority loads to the other loads (or to the end of the preload); the
\* scroll and resize listeners are attached and init()'s draw loop is started
\* only when every frame has been loaded; onReady is invoked exactly once, as
\* the last step of init().
C12_InitOrder ==
  /\ [][(pc \in {"prio1", "prio2", "prio3"} /\ pc' \in {"rest", "ready"})
          => drawn' = [frame |-> 0, blended |-> FALSE]]_vars
  /\ []((scrollListener \/ resizeListener \/ rafLoops["init"] > 0)
          => (0 .. (totalFrames - 1)) \subseteq succeeded)
  /\ [](onReadyCalls = (IF pc = "ready" THEN 1 ELSE 0))

\* C13: onLoad is invoked at most once, and only when every frame index
\* 0..totalFrames-1 has been loaded successfully.
C13_OnLoadOnceAllLoaded ==
  /\ onLoadCalls <= 1
  /\ onLoadCalls = 1 => (0 .. (totalFrames - 1)) \subseteq succeeded

\* C13, witness: onLoad was invoked, and loads went on succeeding after it.
C13_OnLoadThenMoreLoads ==
  onLoadCalls = 1 /\ loadedCount > totalFrames

\* C14: in every reachable state loadedCount (getMetrics().loadedFrames) is
\* the number of distinct frame indices whose load has succeeded; it never
\* exceeds totalFrames, so the percentage given to onProgress,
\* loadedCount / totalFrames * 100, never exceeds 100.
C14_LoadedCountIsDistinctSuccesses ==
  /\ loadedCount = Cardinality(succeeded)
  /\ loadedCount <= totalFrames

\* C15: scroll updates are coalesced: whatever the burst of scroll events, at
\* most one frame callback of handleScroll is pending at any time (and it is
\* pending exactly while `ticking` is set), so updateScrollPosition runs at
\* most once per animation frame.
C15_OneScrollCallbackPending ==
  /\ scrollCallbacks <= 1
  /\ ticking <=> (scrollCallbacks = 1)

\* C15, witness: two scroll events arrived and no callback ran in between
\* (lastScrollY is still the position before the burst); one is pending.
C15_BurstCoalesced ==
  /\ events = MaxBurst
  /\ lastScrollY = 0
  /\ pageYOffset # 0
  /\ scrollCallbacks = 1

\* C16: the configuration is an immutable snapshot: after construction no
\* configuration field other than totalFrames (the mobile override) ever
\* changes its value.
C16_ConfigImmutable == [][imageFormat' = imageFormat]_vars

\* C16, amended: after construction no configuration field other than
\* totalFrames (the mobile override) and imageFormat ever changes its value,
\* and imageFormat changes only to 'jpg', when the WebP probe settles and
\* reports no support.
C16_ConfigChangesOnlyByFallback ==
  [][imageFormat' # imageFormat
       => (pc = "probe" /\ supportsWebP' = "false" /\ imageFormat' = "jpg")]_vars

\* C16, witness: the probe reported no WebP support and the format was
\* downgraded.
C16_FormatDowngraded ==
  supportsWebP = "false" /\ imageFormat = "jpg" /\ pc # "probe"

\* C17: after construction totalFrames is mobileFrameCount exactly when the
\* viewport width is below mobileBreakpoint; at a width equal to the
\* breakpoint, or above it, totalFrames is the caller's.
C17_MobileOnlyBelowBreakpoint ==
  totalFrames = IF innerWidth < MobileBreakpoint THEN MobileFrameCount ELSE MaxFrames

\* C18: for every scroll progress p in [0,1] the targetFrame computed by
\* updateScrollPosition is monotonically non-decreasing in p and lies in
\* [0, totalFrames-1]; p = 0 gives 0 and p = 1 gives totalFrames-1; a page
\* without scrollable height has progress 0.
C18_TargetMonotoneInRange ==
  /\ [](0 <= targetFrame /\ targetFrame <= (totalFrames - 1) * Unit)
  /\ [](lastScrollY <= 0 => targetFrame = 0)
  /\ [](lastScrollY >= ScrollHeight => targetFrame = (totalFrames - 1) * Unit)
  /\ [](ScrollProgressFor(pageYOffset, 0) = 0)
  /\ [][/\ lastScrollY' >= lastScrollY => targetFrame' >= targetFrame
        /\ lastScrollY' <= lastScrollY => targetFrame' <= targetFrame]_vars

\* C18, witness: updateScrollPosition has mapped a position inside the
\* second half of the page to a frame strictly between the ends.
C18_MappedInsideSecondHalf ==
  /\ 2 * lastScrollY > ScrollHeight
  /\ lastScrollY < ScrollHeight
  /\ targetFrame = TargetOf(lastScrollY, totalFrames)
  /\ 0 < targetFrame /\ targetFrame < (totalFrames - 1) * Unit

\* C19: jumpToFrame and jumpToProgress are idempotent: a call that directly
\* follows the same call with the same argument (both returning) leaves
\* currentFrame, targetFrame and the frame drawn on the canvas as the first
\* call left them.
C19_JumpIdempotent ==
  [][(lastJump'.called /\ lastJump'.repeated)
       => (/\ currentFrame' = currentFrame
           /\ targetFrame' = targetFrame
           /\ drawn' = drawn)]_vars

\* C19, witness: jumpToFrame(1.5) was called twice in a row; the player is on
\* frame 1.5 and frame 1 is on the canvas.
C19_JumpedTwice ==
  /\ lastJump.called /\ lastJump.repeated
  /\ lastJump.frameIndex = Unit + (Unit \div 2)
  /\ currentFrame = Unit + (Unit \div 2)
  /\ targetFrame = currentFrame
  /\ drawn = [frame |-> Unit, blended |-> FALSE]

\* C20: of two instances that differ only in the smoothing option and get the
\* same scroll input, the one with the larger smoothing reaches the target in
\* no more ticks, and in fewer for some input.
C20_LargerSmoothingFaster ==
  /\ \A c \in HeldStarts, t \in HeldTargets, v \in HeldVelocities,
        sv \in {0, FastScroll + 1} :
        TicksToTarget(SmoothingFaster, c, v, t, sv, 0)
          <= TicksToTarget(SmoothingDefault, c, v, t, sv, 0)
  /\ \E c \in HeldStarts, t \in HeldTargets, v \in HeldVelocities,
        sv \in {0, FastScroll + 1} :
        TicksToTarget(SmoothingFaster, c, v, t, sv, 0)
          < TicksToTarget(SmoothingDefault, c, v, t, sv, 0)

\* C21: ForestAmbient.destroy() cancels the draw loop, removes the canvas and
\* releases the pools, and is idempotent: once destroy() has been called no
\* frame callback of the overlay is pending and none runs, the canvas has no
\* parent, the particle pool and the sparkle pool are both empty, and a
\* further destroy() changes nothing.
C21_DestroyReleasesAll ==
  /\ [](ambientWindow.destroyed =>
          /\ ambientWindow.frameCallbacks = 0
          /\ ~ambientWindow.parentElement
          /\ ambient.particles = <<>>
          /\ ambient.sparkles = <<>>)
  /\ [][ambientWindow.destroyed =>
          ambientWindow'.ticks = ambientWindow.ticks]_vars
  /\ [][(ambientWindow.destroyed
           /\ ambientWindow'.destroys > ambientWindow.destroys) =>
          /\ ambient' = ambient
          /\ ambientWindow'.frameCallbacks = ambientWindow.frameCallbacks
          /\ ambientWindow'.parentElement = ambientWindow.parentElement]_vars

\* C22: after a particle or a sparkle wraps past a screen edge its position
\* is within the bounds (the viewport and its 10 px wrap margin) on the next
\* tick, and in every reachable state every entity is within the wrap margin
\* plus one step of the viewport.
C22_NeverOutsideMargin ==
  /\ [](/\ \A i \in DOMAIN ambient.particles :
             InsideMargin(ambient.particles[i], ambientWindow.innerWidth,
                          ambientWindow.innerHeight, MaxStep)
        /\ \A i \in DOMAIN ambient.sparkles :
             InsideMargin(ambient.sparkles[i], ambientWindow.innerWidth,
                          ambientWindow.innerHeight, MaxStep))
  /\ [][(ambient' # ambient) =>
          /\ \A i \in DOMAIN ambient'.particles :
               InsideMargin(ambient'.particles[i], ambientWindow'.innerWidth,
                            ambientWindow'.innerHeight, 0)
          /\ \A i \in DOMAIN ambient'.sparkles :
               InsideMargin(ambient'.sparkles[i], ambientWindow'.innerWidth,
                            ambientWindow'.innerHeight, 0)]_vars

\* C22 (amended): every draw tick leaves every particle and every sparkle
\* within the 10 px wrap margin of the viewport as it is at that tick, and in
\* every reachable state every entity is within the wrap margin of the widest
\* viewport the window takes.
C22_InsideMarginAfterEachTick ==
  /\ [](/\ \A i \in DOMAIN ambient.particles :
             InsideMargin(ambient.particles[i], 2 * ViewWidth,
                          ambientWindow.innerHeight, 0)
        /\ \A i \in DOMAIN ambient.sparkles :
             InsideMargin(ambient.sparkles[i], 2 * ViewWidth,
                          ambientWindow.innerHeight, 0))
  /\ [][(ambient' # ambient) =>
          /\ \A i \in DOMAIN ambient'.particles :
               InsideMargin(ambient'.particles[i], ambientWindow'.innerWidth,
                            ambientWindow'.innerHeight, 0)
          /\ \A i \in DOMAIN ambient'.sparkles :
               InsideMargin(ambient'.sparkles[i], ambientWindow'.innerWidth,
                            ambientWindow'.innerHeight, 0)]_vars

\* C22 (witness): a particle drifting to the left is within a step of the
\* right margin, where the wrap past the left edge has put it, and a sparkle
\* drifting to the right is within a step of the left margin
C22_WrappedAndMovedOn ==
  /\ ambientWindow.innerWidth = 2 * ViewWidth
  /\ \E i \in DOMAIN ambient.particles :
       /\ ambient.particles[i].speedX < 0
       /\ ambient.particles[i].x > ambientWindow.innerWidth * Unit + WrapMargin - MaxStep
       /\ ambient.particles[i].x < ambientWindow.innerWidth * Unit + WrapMargin
  /\ \E i \in DOMAIN ambient.sparkles :
       /\ ambient.sparkles[i].baseSpeedX > 0
       /\ ambient.sparkles[i].x > -WrapMargin
       /\ ambient.sparkles[i].x < MaxStep - WrapMargin

\* C23: the light-ray opacity set by updateProgress(p), p in [0, 1], is
\* maximal at p = 0.5, strictly smaller the farther p is from 0.5, and at its
\* minimum, which is above zero, at p = 0 and p = 1: between any two calls the
\* opacity falls when p moves away from 0.5, rises when it moves toward it
\* and is the same at the same distance, and it is never zero.
C23_LightRaysPeakAtMiddle ==
  /\ [](ambientWindow.updated => ambient.lightRayOpacity > 0)
  /\ [][ambientWindow.updated =>
          LET away == Abs(ambient.scrollProgress - Unit \div 2)
              then == Abs(ambient'.scrollProgress - Unit \div 2)
          IN  /\ then > away => ambient'.lightRayOpacity < ambient.lightRayOpacity
              /\ then < away => ambient'.lightRayOpacity > ambient.lightRayOpacity
              /\ then = away => ambient'.lightRayOpacity = ambient.lightRayOpacity]_vars

\* C23 (witness): updateProgress(1) has set the baseline opacity
C23_BaselineAtTheEnd ==
  /\ ambientWindow.updated
  /\ ambient.scrollProgress = Unit
  /\ ambient.lightRayOpacity = (2 * Unit) \div 10

\* C24: jumpToFrame(k) bypasses the spring: when jumpToFrame(k), k a whole
\* index in range, has returned and the draw loop ticks next (no scroll
\* update in between), the tick leaves currentFrame equal to k, whatever the
\* velocity was before the jump.
C24_JumpBypassesSpring ==
  [][(lastJump.called /\ ticks' > ticks) =>
       currentFrame' = lastJump.frameIndex]_vars

\* C25: resize handling is debounced and reloads nothing: however many resize
\* events come before the timer fires, one timer is pending and so one
\* resizeCanvas call follows, after the last of them, and it does follow; and
\* neither a resize event nor the resizeCanvas call requests a frame load or
\* changes currentFrame, targetFrame or the loaded frames.
C25_ResizeDebounced ==
  /\ [](resizeTimeout <= 1)
  /\ [][(resizeTimeout' # resizeTimeout
           \/ (events' # events /\ pageYOffset' = pageYOffset)) =>
          /\ requested' = requested
          /\ inflight' = inflight
          /\ currentFrame' = currentFrame
          /\ targetFrame' = targetFrame
          /\ images' = images
          /\ loadedImages' = loadedImages
          /\ loadedCount' = loadedCount]_vars
  /\ [][resizeTimeout' < resizeTimeout => resizeTimeout' = 0]_vars
  /\ (resizeTimeout > 0) ~> (resizeTimeout = 0)

\* C25 (witness): two resize events have come, the second while the timer of
\* the first was pending or after it had fired, and one timer is pending
C25_BurstLeavesOneTimer ==
  /\ events = MaxBurst
  /\ pageYOffset = 0
  /\ scrollCallbacks = 0
  /\ resizeTimeout = 1

\* C26: at most one frame callback of the ForestScroller draw loop is pending
\* at any time, however pause(), resume() and destroy() interleave with the
\* asynchronous initialization.
C26_OneLoopPending == LoopCount <= 1

\* C27: no scroll update is lost by coalescing: whenever no scroll callback is
\* pending, the position last read and targetFrame are those of the current
\* scroll position, and a pending scroll callback does run; so after the last
\* event of a burst targetFrame comes to the value of the final position,
\* the draw loop running or paused.
C27_NoScrollUpdateLost ==
  /\ [](scrollCallbacks = 0 =>
          /\ lastScrollY = pageYOffset
          /\ targetFrame = TargetOf(pageYOffset, totalFrames))
  /\ []<>(scrollCallbacks = 0)

\* C27 (witness): the loop is paused, the events of a burst have come, the
\* callback has run, and targetFrame is that of the final position
C27_CaughtUpWhilePaused ==
  /\ paused
  /\ events = MaxBurst
  /\ scrollCallbacks = 0
  /\ pageYOffset = ScrollHeight + 20
  /\ lastScrollY = pageYOffset
  /\ targetFrame = (totalFrames - 1) * Unit

\* C28: in every reachable state of ForestAmbient, however the scroll events
\* and the firings of the 50 ms decay timer interleave, the velocity
\* multiplier is in [1, 3]: scrolling never slows the entities below their
\* base speed.
C28_MultiplierInRange ==
  /\ ambient.velocityMultiplier >= Unit
  /\ ambient.velocityMultiplier <= VelocityCap
=============================================================================
